---------------------------- MODULE Spec2Model ----------------------------
(***************************************************************************)
(* KoFinCorpus: link discovery (FileLinkFetcher), file retrieval           *)
(* (FileDownloader), the two run one after the other, and the filenames    *)
(* discovery gives its references (FileLinkFetcher, DartFetcher).          *)
(*                                                                         *)
(* The program is single threaded and every operation is an async          *)
(* function: control leaves the program only at an await.  A state of the  *)
(* model is the program suspended at an await (pc names it) and an action  *)
(* is everything the code runs from the completion of that await to the    *)
(* next one, synchronous file-system calls included.                       *)
(*                                                                         *)
(* A JavaScript string is a sequence of characters, each a one-character   *)
(* TLA+ string; a file body is a sequence of bytes.                        *)
(***************************************************************************)
EXTENDS Naturals, Sequences, FiniteSets, TLC

\* ------------------------------------------------------------------ bounds
\* the constructor's maxItemsPerPage is drawn from 1..MaxItems
MaxItems == 2
\* the page walk fetches at most MaxPages pages
MaxPages == 3
\* confirmAndDownloadFiles is handed at most MaxList references
MaxList == 3
\* the strings of the JSON round trip have at most MaxStrLen characters
MaxStrLen == 1
\* the lists of the JSON round trip have at most MaxJsonList references
MaxJsonList == 2
\* an anchor title, and a name in a content-disposition header, have at most
\* MaxTitleLen characters
MaxTitleLen == 3
\* a listing page under evaluation has at most MaxAnchors anchors
MaxAnchors == 2
\* minDelayMs and maxDelayMs are drawn from 0..MaxDelayMs
MaxDelayMs == 6
\* Math.random() is one of 0/RandomSteps, 1/RandomSteps, ..., below 1
RandomSteps == 8
\* downloadPdf's name-conflict loop is followed while counter <= MaxCounter
MaxCounter == 4

\* ----------------------------------------------------------------- values
\* an absent file: no text and no body equals it
NoFile == <<"NoFile">>
\* const START_PAGE = 1 of the entry scripts
START_PAGE == 1

DQ == "\""
BS == "\\"
LF == "\n"

SeqsUpTo(S, n) == UNION {[1..k -> S] : k \in 0..n}

\* interface FileLink {url, filename}
FileLink(u, f) == [url |-> u, filename |-> f]

\* The references a listing page can yield: a filename is what
\* extractFileNameFromTitle finds in a title, a name with an extension.
\* LinkB's filename holds a double quote (a title is copied unescaped); LinkC
\* shares LinkA's filename.
LinkA == FileLink(<<"u">>, <<"f", ".", "p">>)
LinkB == FileLink(<<"v">>, <<"g", DQ, ".", "p">>)
LinkC == FileLink(<<"w">>, <<"f", ".", "p">>)
Links == {LinkA, LinkB, LinkC}
\* the references the listing pages are made of
PageLinks == {LinkA, LinkB}
\* what the anchors of one listing page can yield: no reference, one, or two
PageLists ==
    {<<>>} \cup {<<a>> : a \in PageLinks} \cup {<<a, b>> : a \in PageLinks, b \in PageLinks}
Filenames == {l.filename : l \in Links}

\* ------------------------------------------------------------------- JSON
RECURSIVE Flatten(_)
Flatten(ss) == IF ss = <<>> THEN <<>> ELSE Head(ss) \o Flatten(Tail(ss))

\* join(sep) of Array.prototype
RECURSIVE Join(_, _)
Join(ss, sep) ==
    IF ss = <<>> THEN <<>>
    ELSE IF Len(ss) = 1 THEN ss[1]
    ELSE ss[1] \o sep \o Join(Tail(ss), sep)

\* A mutant of QuoteJSONString: the characters are copied without escapes.
QuoteJSONStringRaw(s) == <<DQ>> \o s \o <<DQ>>

\* JSON.stringify of a string: quoted, with the double quote, the reverse
\* solidus and the line feed escaped.
QuoteJSONString(s) ==
    <<DQ>> \o Flatten([k \in 1..Len(s) |->
                 IF s[k] = DQ THEN <<BS, DQ>>
                 ELSE IF s[k] = BS THEN <<BS, BS>>
                 ELSE IF s[k] = LF THEN <<BS, "n">>
                 ELSE <<s[k]>>]) \o <<DQ>>

KeyUrl == <<"u", "r", "l">>
KeyFilename == <<"f", "i", "l", "e", "n", "a", "m", "e">>

\* JSON.stringify(link): the own properties in creation order, no spaces
JSONstringify(link) ==
    <<"{">> \o QuoteJSONString(KeyUrl) \o <<":">> \o QuoteJSONString(link.url)
    \o <<",">> \o QuoteJSONString(KeyFilename) \o <<":">>
    \o QuoteJSONString(link.filename) \o <<"}">>

\* the text saveFileLinksToJson writes
JsonLines(fileLinks) ==
    <<"[", LF>>
    \o Join([k \in 1..Len(fileLinks) |-> <<" ", " ">> \o JSONstringify(fileLinks[k])],
            <<",", LF>>)
    \o <<LF, "]">>

\* ---- JSON.parse, for texts that are arrays of objects whose members are
\* strings.  Every parser returns [ok, val, pos]: pos is the index of the
\* first character not consumed; ok = FALSE is the SyntaxError.
Undefined == <<"undefined">>
Bad == [ok |-> FALSE, val |-> <<>>, pos |-> 0]
Good(v, p) == [ok |-> TRUE, val |-> v, pos |-> p]
At(t, p) == IF p \in 1..Len(t) THEN t[p] ELSE "EOF"

RECURSIVE SkipWs(_, _)
SkipWs(t, p) == IF At(t, p) \in {" ", LF} THEN SkipWs(t, p + 1) ELSE p

\* the characters of a string literal from position p (after the opening
\* quote) up to the closing quote
RECURSIVE ParseChars(_, _, _)
ParseChars(t, p, acc) ==
    LET c == At(t, p) IN
    IF c = DQ THEN Good(acc, p + 1)
    ELSE IF c = "EOF" \/ c = LF THEN Bad
    ELSE IF c = BS THEN
        LET e == At(t, p + 1) IN
        IF e \in {DQ, BS, "/"} THEN ParseChars(t, p + 2, Append(acc, e))
        ELSE IF e = "n" THEN ParseChars(t, p + 2, Append(acc, LF))
        ELSE Bad
    ELSE ParseChars(t, p + 1, Append(acc, c))

ParseString(t, p) == IF At(t, p) = DQ THEN ParseChars(t, p + 1, <<>>) ELSE Bad

\* the members of an object from position p (at a key), folded into obj
RECURSIVE ParseMembers(_, _, _)
ParseMembers(t, p, obj) ==
    LET k == ParseString(t, p) IN
    IF ~k.ok THEN Bad
    ELSE LET p1 == SkipWs(t, k.pos) IN
    IF At(t, p1) # ":" THEN Bad
    ELSE LET v == ParseString(t, SkipWs(t, p1 + 1)) IN
    IF ~v.ok THEN Bad
    ELSE LET p2 == SkipWs(t, v.pos)
             o2 == IF k.val = KeyUrl THEN [obj EXCEPT !.url = v.val]
                   ELSE IF k.val = KeyFilename THEN [obj EXCEPT !.filename = v.val]
                   ELSE obj
         IN
    IF At(t, p2) = "}" THEN Good(o2, p2 + 1)
    ELSE IF At(t, p2) = "," THEN ParseMembers(t, SkipWs(t, p2 + 1), o2)
    ELSE Bad

ParseObject(t, p) ==
    IF At(t, p) # "{" THEN Bad
    ELSE LET p1 == SkipWs(t, p + 1) IN
         IF At(t, p1) = "}" THEN Good(FileLink(Undefined, Undefined), p1 + 1)
         ELSE ParseMembers(t, p1, FileLink(Undefined, Undefined))

RECURSIVE ParseElements(_, _, _)
ParseElements(t, p, acc) ==
    LET o == ParseObject(t, p) IN
    IF ~o.ok THEN Bad
    ELSE LET p1 == SkipWs(t, o.pos) IN
    IF At(t, p1) = "]" THEN Good(Append(acc, o.val), p1 + 1)
    ELSE IF At(t, p1) = "," THEN ParseElements(t, SkipWs(t, p1 + 1), Append(acc, o.val))
    ELSE Bad

ParseArray(t, p) ==
    IF At(t, p) # "[" THEN Bad
    ELSE LET p1 == SkipWs(t, p + 1) IN
         IF At(t, p1) = "]" THEN Good(<<>>, p1 + 1)
         ELSE ParseElements(t, p1, <<>>)

\* JSON.parse(text): one value between white space, then the end of the text
JSONparse(t) ==
    LET a == ParseArray(t, SkipWs(t, 1)) IN
    IF a.ok /\ SkipWs(t, a.pos) = Len(t) + 1 THEN a ELSE Bad

\* --------------------------------------------------------------- state
VARIABLES
    pc,              \* the await the program is suspended at
    result,          \* what the caller of the running operation has observed
    maxItemsPerPage, \* FileLinkFetcher.maxItemsPerPage
    checkpoint,      \* the text of outputFilePath, or NoFile
    checkpoint0,     \* history: checkpoint when the run began
    fileLinks,       \* fetchAllFileLinks' accumulator, then the list handed on
    lastPageLinks,   \* fetchAllFileLinks' lastPageLinks
    page,            \* fetchAllFileLinks' page
    fetched,         \* history: how many pages were fetched
    lastFetch,       \* history: the page fetched last, and what it yielded
    prevFetch,       \* history: the page fetched before it
    fetchLog,        \* history: every page fetched and what it yielded, in order
    anchors,         \* the anchors of the page under evaluation: getFileLinksFromPage's links
    prompts,         \* history: the questions put to the operator
    answers,         \* history: the operator's answers
    folderExists,    \* the target folder exists
    disk,            \* the target folder: filename -> body or NoFile
    disk0,           \* history: disk when the retrieval was called
    i,               \* downloadAllFiles' index, from 1
    response,        \* the response whose body is being piped
    checked,         \* history: the last response, and the file it met
    allMatched,      \* history: every response so far met a file of its size
    outcomes,        \* history: outcome of fileLinks[k], in order
    requested,       \* history: the indices axios.get was called for
    piped,           \* history: the indices whose body was piped to a writer
    delays,          \* history: the indices a pacing delay followed
    batchError,      \* downloadAllFiles rejected
    loaded,          \* what JSON.parse made of the text read back
    source,          \* the listing source the walk reads, when one is fixed
    minDelayMs,      \* FileDownloader.minDelayMs
    maxDelayMs,      \* FileDownloader.maxDelayMs
    delayTime,       \* downloadAllFiles' delayTime
    saveDir,         \* PdfDownloader: the paths that exist in saveDir
    filePath,        \* downloadPdf's filePath
    uniqueFilePath,  \* downloadPdf's uniqueFilePath
    counter          \* downloadPdf's counter

walkVars == <<maxItemsPerPage, checkpoint, checkpoint0, lastPageLinks, page, fetched,
              lastFetch, prevFetch, fetchLog, anchors>>
dlVars == <<folderExists, disk, disk0, i, response, checked, allMatched, outcomes,
            requested, piped, delays, batchError>>
auxVars == <<source, minDelayMs, maxDelayMs, delayTime, saveDir, filePath, uniqueFilePath,
             counter>>
vars == <<pc, result, fileLinks, prompts, answers, loaded, walkVars, dlVars, auxVars>>

\* the file bodies: empty, two of the same size, and a longer one
Bodies == {<<>>, <<"x">>, <<"y">>, <<"x", "y">>}
NoResponse == [hasLength |-> FALSE, length |-> 0, body |-> <<>>]
NoCheck == [index |-> 0, existing |-> NoFile, response |-> NoResponse]
\* what axios.get resolves with: the content-length header, when the
\* response carries one, is the length of the body
Responses == {[hasLength |-> h, length |-> IF h THEN Len(b) ELSE 0, body |-> b] :
                 h \in BOOLEAN, b \in Bodies}

\* ----------------------------------------------------------- discovery
\* A mutant of IsDuplicatePage: the references are compared by identity, so
\* two non-empty lists never match.
IsDuplicatePageByIdentity(last, cur) ==
    /\ Len(last) = Len(cur)
    /\ \A k \in 1..Len(last) : FALSE

\* A mutant of IsDuplicatePage: the duplicate-page check is left out.
IsDuplicatePageNever(last, cur) == FALSE

\* A mutant of IsDuplicatePage: only the lengths are compared.
IsDuplicatePageByLength(last, cur) == Len(last) = Len(cur)

\* lastPageLinks.length === pageFileLinks.length && lastPageLinks.every(...)
IsDuplicatePage(last, cur) ==
    /\ Len(last) = Len(cur)
    /\ \A k \in 1..Len(last) :
          last[k].url = cur[k].url /\ last[k].filename = cur[k].filename

\* A mutant of IsShortPage: only an empty page ends the walk.
IsShortPageOnlyEmpty(cur) == Len(cur) = 0

\* A mutant of IsShortPage: the short-page check is left out.
IsShortPageNever(cur) == FALSE

\* pageFileLinks.length < this.maxItemsPerPage
IsShortPage(cur) == Len(cur) < maxItemsPerPage

\* getFileLinksFromPage: the references of the page's anchors in document
\* order; an error is caught and what was pushed before it is returned
\* (built = 0: page.goto or page.evaluate threw)
GetFileLinksFromPage(links, error, built) ==
    IF error THEN SubSeq(links, 1, built) ELSE links

\* askUserConfirmation of confirmAndDownloadFiles, reached synchronously
\* when fetchAllFileLinks returns to fetchAndDownloadFileLinks
ReturnFileLinks ==
    /\ pc' = "askDownload"
    /\ prompts' = Append(prompts, "download")

\* A mutant of SaveFileLinksToJson: the text is appended to the file.
SaveFileLinksToJsonAppending(acc, persist) ==
    /\ checkpoint' = (IF checkpoint = NoFile THEN <<>> ELSE checkpoint) \o JsonLines(acc)
    /\ ReturnFileLinks
    /\ UNCHANGED result

\* A mutant of SaveFileLinksToJson: an empty list is not written.
SaveFileLinksToJsonSkippingEmpty(acc, persist) ==
    /\ checkpoint' = IF acc = <<>> THEN checkpoint ELSE JsonLines(acc)
    /\ ReturnFileLinks
    /\ UNCHANGED result

\* A mutant of SaveFileLinksToJson: an error of the save is caught and logged.
SaveFileLinksToJsonSwallowing(acc, persist) ==
    /\ checkpoint' = (IF persist = "written" THEN JsonLines(acc)
                      ELSE IF persist = "truncated" THEN <<>> ELSE checkpoint)
    /\ ReturnFileLinks
    /\ UNCHANGED result

\* saveFileLinksToJson(fileLinks); return fileLinks.  writeFileSync
\* replaces the whole file.  When it (or mkdirSync) throws, the file is as
\* it was ("unchanged") or is left cut to nothing ("truncated"), and the
\* error leaves fetchAllFileLinks and fetchAndDownloadFileLinks.
SaveFileLinksToJson(acc, persist) ==
    IF persist = "written"
    THEN /\ checkpoint' = JsonLines(acc)
         /\ ReturnFileLinks
         /\ UNCHANGED result
    ELSE /\ checkpoint' = IF persist = "truncated" THEN <<>> ELSE checkpoint
         /\ pc' = "done"
         /\ result' = "threw"
         /\ UNCHANGED prompts

\* page = this.startPage; lastPageLinks = []; the first getFileLinksFromPage
BeginWalk ==
    /\ page' = START_PAGE
    /\ lastPageLinks' = <<>>
    /\ pc' = "awaitPage"

\* A mutant of Start: the operator is asked whether or not the file exists.
StartAlwaysAsks ==
    /\ pc = "start"
    /\ pc' = "askUse"
    /\ prompts' = Append(prompts, "use")
    /\ UNCHANGED <<page, lastPageLinks>>
    /\ UNCHANGED <<result, fileLinks, answers, loaded, maxItemsPerPage, checkpoint,
                   checkpoint0, fetched, lastFetch, prevFetch, fetchLog, anchors, dlVars, auxVars>>

\* fetchAndDownloadFileLinks is called: fetchAllFileLinks up to its first await
Start ==
    /\ pc = "start"
    /\ IF checkpoint # NoFile
       THEN /\ pc' = "askUse"
            /\ prompts' = Append(prompts, "use")
            /\ UNCHANGED <<page, lastPageLinks>>
       ELSE /\ BeginWalk
            /\ UNCHANGED prompts
    /\ UNCHANGED <<result, fileLinks, answers, loaded, maxItemsPerPage, checkpoint,
                   checkpoint0, fetched, lastFetch, prevFetch, fetchLog, anchors, dlVars, auxVars>>

\* A mutant of UseExisting: the test is inverted.
UseExistingInverted(userChoice) == ~userChoice

\* if (userChoice)
UseExisting(userChoice) == userChoice

\* the operator answers "use existing?": the parsed file is returned as it
\* is, or the walk begins
AnswerUse(userChoice) ==
    /\ pc = "askUse"
    /\ answers' = Append(answers, userChoice)
    /\ IF UseExisting(userChoice)
       THEN LET parsed == JSONparse(checkpoint) IN
            /\ loaded' = parsed
            /\ IF parsed.ok
               THEN /\ fileLinks' = parsed.val
                    /\ ReturnFileLinks
                    /\ UNCHANGED result
               ELSE /\ pc' = "done"
                    /\ result' = "threw"
                    /\ UNCHANGED <<fileLinks, prompts>>
            /\ UNCHANGED <<page, lastPageLinks>>
       ELSE /\ BeginWalk
            /\ UNCHANGED <<result, fileLinks, prompts, loaded>>
    /\ UNCHANGED <<maxItemsPerPage, checkpoint, checkpoint0, fetched, lastFetch,
                   prevFetch, fetchLog, anchors, dlVars, auxVars>>

\* A mutant of PageReturns: the accumulator is saved after every page.
PageReturnsSavingEachPage(links, error, built) ==
    /\ pc = "awaitPage"
    /\ fetched < MaxPages
    /\ LET pageFileLinks == GetFileLinksFromPage(links, error, built)
           isDuplicatePage == IsDuplicatePage(lastPageLinks, pageFileLinks)
           acc == IF isDuplicatePage THEN fileLinks ELSE fileLinks \o pageFileLinks
       IN /\ fetched' = fetched + 1
          /\ prevFetch' = lastFetch
          /\ lastFetch' = [page |-> page, links |-> pageFileLinks, error |-> error]
          /\ fetchLog' = Append(fetchLog, [page |-> page, links |-> pageFileLinks,
                                           error |-> error])
          /\ fileLinks' = acc
          /\ lastPageLinks' = IF isDuplicatePage THEN lastPageLinks ELSE pageFileLinks
          /\ page' = IF isDuplicatePage THEN page ELSE page + 1
          /\ IF isDuplicatePage \/ IsShortPage(pageFileLinks)
             THEN \E persist \in {"written", "unchanged", "truncated"} :
                     SaveFileLinksToJson(acc, persist)
             ELSE /\ pc' = "awaitPage"
                  /\ checkpoint' = JsonLines(acc)
                  /\ UNCHANGED <<prompts, result>>
    /\ UNCHANGED <<answers, loaded, maxItemsPerPage, checkpoint0, anchors, dlVars, auxVars>>

\* getFileLinksFromPage resolves: the rest of the loop body, then either the
\* next getFileLinksFromPage or the save and the return
PageReturns(links, error, built) ==
    /\ pc = "awaitPage"
    /\ fetched < MaxPages
    /\ LET pageFileLinks == GetFileLinksFromPage(links, error, built)
           isDuplicatePage == IsDuplicatePage(lastPageLinks, pageFileLinks)
           acc == IF isDuplicatePage THEN fileLinks ELSE fileLinks \o pageFileLinks
       IN /\ fetched' = fetched + 1
          /\ prevFetch' = lastFetch
          /\ lastFetch' = [page |-> page, links |-> pageFileLinks, error |-> error]
          /\ fetchLog' = Append(fetchLog, [page |-> page, links |-> pageFileLinks,
                                           error |-> error])
          /\ fileLinks' = acc
          /\ lastPageLinks' = IF isDuplicatePage THEN lastPageLinks ELSE pageFileLinks
          /\ page' = IF isDuplicatePage THEN page ELSE page + 1
          /\ IF isDuplicatePage \/ IsShortPage(pageFileLinks)
             THEN \E persist \in {"written", "unchanged", "truncated"} :
                     SaveFileLinksToJson(acc, persist)
             ELSE /\ pc' = "awaitPage"
                  /\ UNCHANGED <<checkpoint, prompts, result>>
    /\ UNCHANGED <<answers, loaded, maxItemsPerPage, checkpoint0, anchors, dlVars, auxVars>>

\* no page was fetched
NoFetch == [page |-> 0, links |-> <<>>, error |-> FALSE]

\* no source is fixed: a page fetch can yield any list
NoSource == [results |-> <<>>, pageSize |-> 0, pastEnd |-> "any"]

\* the pacing is the default (0, 0), and no downloadPdf is running
InitAuxIdle ==
    /\ source = NoSource
    /\ minDelayMs = 0
    /\ maxDelayMs = 0
    /\ delayTime = 0
    /\ saveDir = {}
    /\ filePath = <<>>
    /\ uniqueFilePath = <<>>
    /\ counter = 1

\* what a run can find at outputFilePath: no file, a file an earlier run
\* left truncated, or the list an earlier run saved
OldFileLinks == {<<>>, <<LinkC>>, <<LinkC, LinkB>>, <<LinkA, LinkB, LinkA>>}
InitCheckpoints == {NoFile, <<>>} \cup {JsonLines(l) : l \in OldFileLinks}

InitRetrievalIdle ==
    /\ folderExists = FALSE
    /\ disk = [f \in Filenames |-> NoFile]
    /\ disk0 = disk
    /\ i = 0
    /\ response = NoResponse
    /\ checked = NoCheck
    /\ allMatched = TRUE
    /\ outcomes = <<>>
    /\ requested = <<>>
    /\ piped = <<>>
    /\ delays = <<>>
    /\ batchError = FALSE

Init ==
    /\ pc = "start"
    /\ result = "pending"
    /\ maxItemsPerPage \in 1..MaxItems
    /\ checkpoint \in InitCheckpoints
    /\ checkpoint0 = checkpoint
    /\ fileLinks = <<>>
    /\ lastPageLinks = <<>>
    /\ page = START_PAGE
    /\ fetched = 0
    /\ lastFetch = NoFetch
    /\ prevFetch = NoFetch
    /\ fetchLog = <<>>
    /\ InitAuxIdle
    /\ anchors = <<>>
    /\ prompts = <<>>
    /\ answers = <<>>
    /\ loaded = Bad
    /\ InitRetrievalIdle

Next ==
    \/ Start
    \/ \E userChoice \in BOOLEAN : AnswerUse(userChoice)
    \/ \E links \in PageLists, error \in BOOLEAN :
          \E built \in (IF error THEN 0..Len(links) ELSE {Len(links)}) :
             PageReturns(links, error, built)

Spec == Init /\ [][Next]_vars

\* ------------------------------------------------------ discovery: claims
\* the operator was asked about the checkpoint and answered userChoice
AnsweredUse(userChoice) ==
    /\ Len(prompts) >= 1 /\ prompts[1] = "use"
    /\ Len(answers) >= 1 /\ answers[1] = userChoice

\* fetchAllFileLinks has returned its list
Discovered == pc = "askDownload"

\* C2: when the two pages fetched last are consecutive and yielded equal
\* lists, the walk has stopped: no further page fetch is in flight.
C2_DuplicatePageStops ==
    (fetched >= 2 /\ prevFetch.links = lastFetch.links) =>
        /\ lastFetch.page = prevFetch.page + 1
        /\ pc # "awaitPage"

\* two equal full pages were fetched and the walk returned
C2_Witness ==
    /\ fetched = 2 /\ fetched < MaxPages
    /\ prevFetch.links = lastFetch.links
    /\ Len(lastFetch.links) >= maxItemsPerPage
    /\ Discovered

\* C3: a page that yielded fewer than maxItemsPerPage references is the
\* last page fetched: no further page fetch is in flight after it.
C3_ShortPageStops ==
    (fetched >= 1 /\ Len(lastFetch.links) < maxItemsPerPage) => pc # "awaitPage"

\* a short, non-empty page that differs from the page before it ended the walk
C3_Witness ==
    /\ fetched = 2 /\ fetched < MaxPages
    /\ lastFetch.links # <<>>
    /\ Len(lastFetch.links) < maxItemsPerPage
    /\ lastFetch.links # prevFetch.links
    /\ Discovered

\* the duplicate-page check fired on a short page
C3_WitnessDuplicate ==
    /\ fetched = 1
    /\ Len(lastFetch.links) < maxItemsPerPage
    /\ lastFetch.links = lastPageLinks
    /\ Discovered

\* C4: when the operator confirms the reuse of an existing checkpoint, no
\* page is fetched, and the list returned is what the checkpoint parses to.
C4_ReuseShortCircuits ==
    AnsweredUse(TRUE) =>
        /\ fetched = 0
        /\ pc # "awaitPage"
        /\ checkpoint = checkpoint0
        /\ Discovered =>
              /\ JSONparse(checkpoint0).ok
              /\ fileLinks = JSONparse(checkpoint0).val

\* a checkpoint of two different references was reused
C4_Witness ==
    /\ AnsweredUse(TRUE)
    /\ Discovered
    /\ Len(fileLinks) = 2
    /\ fileLinks[1] # fileLinks[2]

\* C5: when the operator declines the reuse, the walk begins at the start
\* page with nothing accumulated, and when the list is returned the
\* checkpoint parses to exactly that list.
C5_DeclineRewalks ==
    AnsweredUse(FALSE) =>
        /\ (fetched = 0 =>
               pc = "awaitPage" /\ page = START_PAGE /\ fileLinks = <<>>
               /\ lastPageLinks = <<>>)
        /\ (fetched = 1 => lastFetch.page = START_PAGE)
        /\ Discovered =>
              /\ fetched >= 1
              /\ JSONparse(checkpoint).ok
              /\ JSONparse(checkpoint).val = fileLinks

\* an old checkpoint with content was replaced by a different one
C5_Witness ==
    /\ AnsweredUse(FALSE)
    /\ Discovered
    /\ JSONparse(checkpoint0).ok
    /\ JSONparse(checkpoint0).val # <<>>
    /\ fileLinks # <<>>
    /\ fileLinks # JSONparse(checkpoint0).val

\* the k-th page fetched yielded the list of the page fetched before it
RepeatsPreviousPage(k) == k >= 2 /\ fetchLog[k].links = fetchLog[k - 1].links

\* the lists of the first n pages fetched, one after the other, a page that
\* repeats the page before it left out
PagesConcatenated(n) ==
    Flatten([k \in 1..n |-> IF RepeatsPreviousPage(k) THEN <<>> ELSE fetchLog[k].links])

\* C12 as claimed: the list a page walk returns holds no two entries with
\* the same url and filename.
C12_ReturnedListDeduplicated ==
    (Discovered /\ fetched >= 1) =>
        \A a, b \in 1..Len(fileLinks) : a # b => fileLinks[a] # fileLinks[b]

\* C18: during and after a page walk the accumulator is the concatenation,
\* in page order, of the lists of the pages fetched, except the list of a
\* page that repeats the page before it; the pages fetched are the start
\* page and its successors, each once.
C18_AccumulatorIsConcatenation ==
    fetched >= 1 =>
        /\ Len(fetchLog) = fetched
        /\ \A k \in 1..Len(fetchLog) : fetchLog[k].page = START_PAGE + k - 1
        /\ fileLinks = PagesConcatenated(Len(fetchLog))

\* two different full pages and a repeat of the second were fetched, and the
\* walk returned the first two
C18_Witness ==
    /\ Discovered
    /\ fetched = 3
    /\ fetchLog[1].links # fetchLog[2].links
    /\ RepeatsPreviousPage(3)
    /\ Len(fileLinks) = 4
    /\ fileLinks[1] # fileLinks[2]

\* C19 as claimed: a page whose fetch or extraction failed contributes an
\* empty list.
C19_PageFailureDegradesToEmpty ==
    \A k \in 1..Len(fetchLog) : fetchLog[k].error => fetchLog[k].links = <<>>

\* C20 as claimed: the page whose fetch failed is the last page fetched, no
\* fetch follows it, and the list the walk returns, which is also what the
\* checkpoint then holds, is made of the pages before it.  (A walk whose
\* save fails as well is not held against the claim.)
C20_PageFailureTruncates ==
    \A n \in 1..Len(fetchLog) :
        fetchLog[n].error =>
            /\ n = Len(fetchLog)
            /\ pc # "awaitPage"
            /\ Discovered =>
                  /\ fileLinks = PagesConcatenated(n - 1)
                  /\ JSONparse(checkpoint).ok
                  /\ JSONparse(checkpoint).val = fileLinks

\* the walk has left its loop
WalkStopped == fetched >= 1 /\ pc # "awaitPage"

\* the loop was left at the break of the duplicate-page check, which comes
\* before page += 1: page is still the page fetched last
StoppedByDuplicateCheck == WalkStopped /\ page = lastFetch.page

\* the loop was left at the break of the short-page check, which comes after
\* page += 1
StoppedByShortPageCheck == WalkStopped /\ page = lastFetch.page + 1

\* the page fetched before the last one is full and differs from the page
\* before it, and the page fetched last is empty: the source's last real page
\* N held exactly maxItemsPerPage references, and page N+1 was asked for
ExactMultipleLastPage ==
    /\ fetched >= 2
    /\ ~prevFetch.error /\ ~lastFetch.error
    /\ Len(prevFetch.links) = maxItemsPerPage
    /\ (fetched >= 3 => fetchLog[fetched - 2].links # prevFetch.links)
    /\ lastFetch.links = <<>>

\* C21 as claimed: after a full last page N that differs from page N-1, the
\* walk asks for page N+1 only, finds it empty, and stops at the
\* duplicate-page check.
C21_ExactMultipleStopsByDuplicate ==
    ExactMultipleLastPage =>
        /\ lastFetch.page = prevFetch.page + 1
        /\ StoppedByDuplicateCheck

\* C21, amended: after a full last page N that differs from page N-1, the
\* walk asks for page N+1 only, finds it empty, and stops at the short-page
\* check: the empty page is not a duplicate of page N, it is recorded as the
\* last page, and the list is the pages up to N.
C21_ExactMultipleStopsByShortPage ==
    ExactMultipleLastPage =>
        /\ lastFetch.page = prevFetch.page + 1
        /\ ~IsDuplicatePage(prevFetch.links, lastFetch.links)
        /\ StoppedByShortPageCheck
        /\ lastPageLinks = <<>>
        /\ fileLinks = PagesConcatenated(fetched - 1)

\* two different full pages, then an empty third page, and the walk returned
C21_Witness ==
    /\ ExactMultipleLastPage
    /\ fetched = 3
    /\ Len(fetchLog[1].links) = maxItemsPerPage
    /\ Discovered

\* a step that changes the checkpoint file is the step that takes the walk
\* out of its loop, and when the list is returned the file holds it whole
CheckpointChangesAtWalkEnd ==
    checkpoint' # checkpoint =>
        /\ pc = "awaitPage"
        /\ pc' \in {"askDownload", "done"}
        /\ fetched' = fetched + 1
        /\ (pc' = "askDownload" => checkpoint' = JsonLines(fileLinks'))

\* C22: the checkpoint file changes only in the step that ends the page walk,
\* after the last page was fetched, and a write that succeeds puts the whole
\* list there; until the walk ends, and in a run that reuses the checkpoint,
\* the file is as the run found it.
C22_CheckpointWrittenOnceAndWhole ==
    /\ [](pc \in {"start", "askUse", "awaitPage"} => checkpoint = checkpoint0)
    /\ [](AnsweredUse(TRUE) => checkpoint = checkpoint0)
    /\ [][CheckpointChangesAtWalkEnd]_vars
    /\ [][(pc \in {"askDownload", "done"}) => (checkpoint' = checkpoint)]_vars

\* a walk of three pages replaced an old checkpoint
C22_Witness ==
    /\ Discovered
    /\ fetched = 3
    /\ AnsweredUse(FALSE)
    /\ checkpoint0 # NoFile
    /\ checkpoint # checkpoint0
    /\ checkpoint = JsonLines(fileLinks)
    /\ Len(fileLinks) >= 2

\* C28: a page walk that returns with an empty list has written the
\* checkpoint, as the text of the empty list, which parses to the empty list;
\* and a run that finds that text and whose operator confirms the reuse
\* returns the empty list without fetching a page.
C28_EmptyResultCheckpointed ==
    /\ (Discovered /\ fetched >= 1 /\ fileLinks = <<>>) =>
           /\ checkpoint = JsonLines(<<>>)
           /\ JSONparse(checkpoint).ok
           /\ JSONparse(checkpoint).val = <<>>
    /\ (checkpoint0 = JsonLines(<<>>) /\ AnsweredUse(TRUE)) =>
           /\ fetched = 0
           /\ Discovered
           /\ fileLinks = <<>>
           /\ checkpoint = checkpoint0

\* the first page fetch failed, and the walk wrote the empty list where no
\* checkpoint was
C28_Witness ==
    /\ Discovered
    /\ fetched = 1
    /\ lastFetch.error
    /\ fileLinks = <<>>
    /\ checkpoint0 = NoFile
    /\ checkpoint = JsonLines(<<>>)

\* the checkpoint of the empty list was reused
C28_WitnessReuse ==
    /\ checkpoint0 = JsonLines(<<>>)
    /\ AnsweredUse(TRUE)
    /\ Discovered

\* ------------------------------------------------------------ retrieval
\* const filePath = path.join(this.folderPath, fileLink.filename)
FilePath(k) == fileLinks[k].filename

\* A mutant of ExistingFileCheck: a response without content-length is
\* taken as a size mismatch.
ExistingFileCheckNoLengthReplaces(existing, resp) ==
    IF existing = NoFile THEN "write"
    ELSE IF resp.hasLength /\ Len(existing) = resp.length THEN "skip"
    ELSE "replace"

\* A mutant of ExistingFileCheck: a file that exists is never replaced.
ExistingFileCheckKeepsExisting(existing, resp) ==
    IF existing = NoFile THEN "write" ELSE "skip"

\* A mutant of ExistingFileCheck: the sizes are compared the wrong way round.
ExistingFileCheckInverted(existing, resp) ==
    IF existing = NoFile THEN "write"
    ELSE IF ~resp.hasLength THEN "skip"
    ELSE IF Len(existing) # resp.length THEN "skip"
    ELSE "replace"

\* downloadFile's test of the destination: no file there, write; no
\* content-length or the same size, skip; another size, unlink and write
ExistingFileCheck(existing, resp) ==
    IF existing = NoFile THEN "write"
    ELSE IF ~resp.hasLength THEN "skip"
    ELSE IF Len(existing) = resp.length THEN "skip"
    ELSE "replace"

\* downloadAllFiles' loop after downloadFile(fileLinks[i]) and its delay:
\* the next downloadFile up to its axios.get, or the return through
\* confirmAndDownloadFiles
NextFile ==
    IF i < Len(fileLinks)
    THEN /\ i' = i + 1
         /\ requested' = Append(requested, i + 1)
         /\ pc' = "awaitResponse"
         /\ UNCHANGED result
    ELSE /\ pc' = "done"
         /\ result' = "returned"
         /\ UNCHANGED <<i, requested>>

\* A mutant of DownloadFails: the loop goes on to the next reference.
DownloadFailsAndContinues ==
    /\ outcomes' = Append(outcomes, "failed")
    /\ batchError' = FALSE
    /\ NextFile

\* downloadFile's catch logs and rethrows, downloadAllFiles rejects, and the
\* catch of confirmAndDownloadFiles logs the error: confirmAndDownloadFiles
\* resolves
DownloadFails ==
    /\ outcomes' = Append(outcomes, "failed")
    /\ batchError' = TRUE
    /\ pc' = "done"
    /\ result' = "returned"
    /\ UNCHANGED <<i, requested>>

\* A mutant of AnswerDownload: the folder is made before the answer is looked at.
AnswerDownloadMakesFolder(confirmed) ==
    /\ pc = "askDownload"
    /\ answers' = Append(answers, confirmed)
    /\ folderExists' = TRUE
    /\ IF confirmed /\ fileLinks # <<>>
       THEN /\ i' = 1
            /\ requested' = Append(requested, 1)
            /\ pc' = "awaitResponse"
            /\ UNCHANGED result
       ELSE /\ pc' = "done"
            /\ result' = "returned"
            /\ UNCHANGED <<i, requested>>
    /\ UNCHANGED <<fileLinks, prompts, loaded, walkVars, disk, disk0, response, checked,
                   allMatched, outcomes, piped, delays, batchError, auxVars>>

\* A mutant of AnswerDownload: downloadFile is called for every reference at
\* once, and the first is awaited.
AnswerDownloadAllAtOnce(confirmed) ==
    /\ pc = "askDownload"
    /\ answers' = Append(answers, confirmed)
    /\ IF confirmed
       THEN /\ folderExists' = TRUE
            /\ IF fileLinks # <<>>
               THEN /\ i' = 1
                    /\ requested' = requested \o [k \in 1..Len(fileLinks) |-> k]
                    /\ pc' = "awaitResponse"
                    /\ UNCHANGED result
               ELSE /\ pc' = "done"
                    /\ result' = "returned"
                    /\ UNCHANGED <<i, requested>>
       ELSE /\ pc' = "done"
            /\ result' = "returned"
            /\ UNCHANGED <<folderExists, i, requested>>
    /\ UNCHANGED <<fileLinks, prompts, loaded, walkVars, disk, disk0, response, checked,
                   allMatched, outcomes, piped, delays, batchError, auxVars>>

\* the operator answers "Download n file links?"
AnswerDownload(confirmed) ==
    /\ pc = "askDownload"
    /\ answers' = Append(answers, confirmed)
    /\ IF confirmed
       THEN /\ folderExists' = TRUE
            /\ IF fileLinks # <<>>
               THEN /\ i' = 1
                    /\ requested' = Append(requested, 1)
                    /\ pc' = "awaitResponse"
                    /\ UNCHANGED result
               ELSE /\ pc' = "done"
                    /\ result' = "returned"
                    /\ UNCHANGED <<i, requested>>
       ELSE /\ pc' = "done"
            /\ result' = "returned"
            /\ UNCHANGED <<folderExists, i, requested>>
    /\ UNCHANGED <<fileLinks, prompts, loaded, walkVars, disk, disk0, response, checked,
                   allMatched, outcomes, piped, delays, batchError, auxVars>>

\* axios.get resolves with the headers; the body is not read yet
ResponseArrives(resp) ==
    /\ pc = "awaitResponse"
    /\ LET existing == disk[FilePath(i)]
           check == ExistingFileCheck(existing, resp)
       IN /\ checked' = [index |-> i, existing |-> existing, response |-> resp]
          /\ allMatched' = (/\ allMatched
                            /\ disk0[FilePath(i)] # NoFile
                            /\ resp.hasLength
                            /\ resp.length = Len(disk0[FilePath(i)]))
          /\ IF check = "skip"
             THEN /\ outcomes' = Append(outcomes, "skipped")
                  /\ NextFile
                  /\ UNCHANGED <<disk, response, piped>>
             ELSE /\ disk' = [disk EXCEPT ![FilePath(i)] = NoFile]
                  /\ response' = resp
                  /\ piped' = Append(piped, i)
                  /\ pc' = "awaitStream"
                  /\ UNCHANGED <<result, i, requested, outcomes>>
    /\ UNCHANGED <<fileLinks, prompts, answers, loaded, walkVars, folderExists, disk0,
                   delays, batchError, auxVars>>

\* axios.get rejects
RequestFails ==
    /\ pc = "awaitResponse"
    /\ allMatched' = FALSE
    /\ DownloadFails
    /\ UNCHANGED <<fileLinks, prompts, answers, loaded, walkVars, folderExists, disk,
                   disk0, response, checked, piped, delays, auxVars>>

\* A mutant of StreamFinishes: the loop goes on without the pacing delay.
StreamFinishesNoDelay ==
    /\ pc = "awaitStream"
    /\ disk' = [disk EXCEPT ![FilePath(i)] = response.body]
    /\ outcomes' = Append(outcomes, "downloaded")
    /\ NextFile
    /\ UNCHANGED <<fileLinks, prompts, answers, loaded, walkVars, folderExists, disk0,
                   response, checked, allMatched, piped, delays, batchError, auxVars>>

\* the writer emits finish: the file holds the body; then the pacing delay
StreamFinishes ==
    /\ pc = "awaitStream"
    /\ disk' = [disk EXCEPT ![FilePath(i)] = response.body]
    /\ outcomes' = Append(outcomes, "downloaded")
    /\ delays' = Append(delays, i)
    /\ pc' = "awaitDelay"
    /\ UNCHANGED <<result, fileLinks, prompts, answers, loaded, walkVars, folderExists,
                   disk0, i, response, checked, allMatched, requested, piped,
                   batchError, auxVars>>

\* the writer emits error: the file was not opened, or holds the bytes
\* written before the error
StreamFails(written) ==
    /\ pc = "awaitStream"
    /\ disk' = [disk EXCEPT ![FilePath(i)] = written]
    /\ DownloadFails
    /\ UNCHANGED <<fileLinks, prompts, answers, loaded, walkVars, folderExists, disk0,
                   response, checked, allMatched, piped, delays, auxVars>>

\* the timer of delay(delayTime) fires
DelayElapses ==
    /\ pc = "awaitDelay"
    /\ NextFile
    /\ UNCHANGED <<fileLinks, prompts, answers, loaded, walkVars, folderExists, disk,
                   disk0, response, checked, allMatched, outcomes, piped, delays,
                   batchError, auxVars>>

\* confirmAndDownloadFiles(fileLinks) is called on a folder in any state
InitRetrieval ==
    /\ pc = "askDownload"
    /\ result = "pending"
    /\ maxItemsPerPage = 1
    /\ checkpoint = NoFile
    /\ checkpoint0 = NoFile
    /\ fileLinks \in SeqsUpTo(Links, MaxList)
    /\ lastPageLinks = <<>>
    /\ page = START_PAGE
    /\ fetched = 0
    /\ lastFetch = NoFetch
    /\ prevFetch = NoFetch
    /\ fetchLog = <<>>
    /\ InitAuxIdle
    /\ anchors = <<>>
    /\ prompts = <<"download">>
    /\ answers = <<>>
    /\ loaded = Bad
    /\ folderExists \in BOOLEAN
    /\ disk \in [Filenames -> {NoFile} \cup Bodies]
    /\ folderExists \/ \A f \in Filenames : disk[f] = NoFile
    /\ disk0 = disk
    /\ i = 0
    /\ response = NoResponse
    /\ checked = NoCheck
    /\ allMatched = TRUE
    /\ outcomes = <<>>
    /\ requested = <<>>
    /\ piped = <<>>
    /\ delays = <<>>
    /\ batchError = FALSE

NextRetrieval ==
    \/ \E confirmed \in BOOLEAN : AnswerDownload(confirmed)
    \/ \E resp \in Responses : ResponseArrives(resp)
    \/ RequestFails
    \/ StreamFinishes
    \/ \E written \in {NoFile} \cup {SubSeq(response.body, 1, k) : k \in 0..Len(response.body)} :
          StreamFails(written)
    \/ DelayElapses

SpecRetrieval == InitRetrieval /\ [][NextRetrieval]_vars

\* ------------------------------------------------------ retrieval: claims
Range(q) == {q[n] : n \in 1..Len(q)}

\* the operator confirmed the download
Confirmed == answers # <<>> /\ answers[Len(answers)] /\ prompts[Len(answers)] = "download"

\* C1: when the download of reference k has failed, every reference before
\* it was downloaded or skipped, the run has ended, and no reference after
\* k was requested, piped to a file or given an outcome.
C1_BatchAbortsOnFailure ==
    \A k \in 1..Len(outcomes) :
        outcomes[k] = "failed" =>
            /\ \A j \in 1..(k - 1) : outcomes[j] \in {"downloaded", "skipped"}
            /\ Len(outcomes) = k
            /\ pc = "done"
            /\ \A j \in Range(requested) \cup Range(piped) : j <= k
            /\ k \in Range(requested)

\* the second of three references failed after the first was downloaded
C1_Witness ==
    /\ Len(fileLinks) = 3
    /\ outcomes = <<"downloaded", "failed">>
    /\ pc = "done"

\* C6: in a confirmed run in which every response so far carried the size
\* of the file the folder held at the destination from the start, every
\* outcome is skipped, no body was piped, no file has changed, and the run
\* ends having handled every reference.
C6_IdempotentDownload ==
    (Confirmed /\ allMatched) =>
        /\ \A k \in 1..Len(outcomes) : outcomes[k] = "skipped"
        /\ piped = <<>>
        /\ disk = disk0
        /\ ~batchError
        /\ pc \in {"awaitResponse", "done"}
        /\ pc = "done" => Len(outcomes) = Len(fileLinks) /\ result = "returned"

\* a run over three references, two of them with the same filename, ended
\* with every file matched
C6_Witness ==
    /\ Confirmed /\ allMatched
    /\ pc = "done"
    /\ Len(fileLinks) = 3
    /\ Len(outcomes) = 3
    /\ \E f \in Filenames : disk0[f] # <<>>

\* the last response met a file of another size than its content-length
SizeMismatch ==
    /\ checked.index >= 1
    /\ checked.existing # NoFile
    /\ checked.response.hasLength
    /\ Len(checked.existing) # checked.response.length

\* C7: when the response for reference k met a file of another size, the
\* old file is gone while the body is piped, reference k is not skipped,
\* and once it is downloaded the file holds exactly the body of the response.
C7_SizeMismatchRedownloads ==
    SizeMismatch =>
        LET k == checked.index IN
        /\ k \in Range(piped)
        /\ Len(outcomes) >= k => outcomes[k] # "skipped"
        /\ pc = "awaitStream" => i = k /\ disk[FilePath(k)] # checked.existing
        /\ (Len(outcomes) = k /\ outcomes[k] = "downloaded") =>
              /\ disk[FilePath(k)] = checked.response.body
              /\ Len(disk[FilePath(k)]) = checked.response.length

\* a file with content was replaced by a body of another size
C7_Witness ==
    /\ SizeMismatch
    /\ checked.existing # <<>>
    /\ Len(outcomes) = checked.index
    /\ outcomes[checked.index] = "downloaded"
    /\ disk[FilePath(checked.index)] # disk0[FilePath(checked.index)]

\* C9 as claimed: when a download has failed, the caller of
\* confirmAndDownloadFiles observes the failure, not a normal return.
C9_FailurePropagates == batchError => result = "threw"

\* the last response carried no content-length and met an existing file
Unverifiable ==
    /\ checked.index >= 1
    /\ checked.existing # NoFile
    /\ ~checked.response.hasLength

\* C10: when the response for reference k carried no content-length and a
\* file existed at the destination, reference k is skipped, its body is
\* not piped, and the file is as it was.
C10_UnverifiableSizeSkips ==
    Unverifiable =>
        LET k == checked.index IN
        /\ Len(outcomes) >= k /\ outcomes[k] = "skipped"
        /\ k \notin Range(piped)
        /\ disk[FilePath(k)] = checked.existing

\* a file was kept although the response's body differed from it
C10_Witness ==
    /\ Unverifiable
    /\ checked.response.body # checked.existing
    /\ Len(checked.response.body) # Len(checked.existing)
    /\ outcomes[checked.index] = "skipped"

\* the operator declined the download
Declined == answers # <<>> /\ ~answers[Len(answers)] /\ prompts[Len(answers)] = "download"

\* how many times x occurs in q
Count(q, x) == Cardinality({n \in 1..Len(q) : q[n] = x})

\* C11: when the operator declines, confirmAndDownloadFiles returns with no
\* file requested, no body piped and every file as it was, and the step
\* that takes the answer leaves the folder and the files as they are.
C11_DeclineNoSideEffects ==
    /\ [](Declined =>
            /\ pc = "done" /\ result = "returned"
            /\ requested = <<>> /\ piped = <<>> /\ outcomes = <<>>
            /\ disk = disk0)
    /\ [][(pc = "askDownload" /\ answers' = Append(answers, FALSE)) =>
            UNCHANGED <<folderExists, disk>>]_vars

\* the download of a list of references was declined while the folder did
\* not exist
C11_Witness ==
    /\ Declined
    /\ fileLinks # <<>>
    /\ ~folderExists
    /\ pc = "done"

\* C16: a pacing delay follows reference k exactly when its outcome is
\* downloaded; while the delay runs the next reference is not yet requested,
\* and a skipped reference that is not the last has its successor requested
\* in the same step.
C16_PacingOnlyAfterDownload ==
    /\ \A k \in 1..Len(outcomes) : (k \in Range(delays)) <=> (outcomes[k] = "downloaded")
    /\ \A k \in Range(delays) : k <= Len(outcomes) /\ Count(delays, k) = 1
    /\ pc = "awaitDelay" =>
          /\ Len(outcomes) = i /\ outcomes[i] = "downloaded"
          /\ Len(requested) = i
    /\ \A k \in 1..Len(outcomes) :
          (outcomes[k] = "skipped" /\ k < Len(fileLinks)) => (k + 1) \in Range(requested)

\* a skipped, a downloaded and a skipped reference: one delay, after the second
C16_Witness ==
    /\ outcomes = <<"skipped", "downloaded", "skipped">>
    /\ delays = <<2>>
    /\ pc = "done"

\* C17 as claimed: a reference whose download failed was requested again.
C17_FailedDownloadRetried ==
    \A k \in 1..Len(outcomes) : outcomes[k] = "failed" => Count(requested, k) >= 2

\* C26 as claimed: a reference whose body was piped to its file, which
\* unlinks or truncates what is at that path, has no earlier reference of
\* the list with the same filename whose file was downloaded in this run.
C26_EarlierDownloadKept ==
    \A k \in Range(piped) :
        \A j \in 1..(k - 1) :
            ~(outcomes[j] = "downloaded" /\ FilePath(j) = FilePath(k))

\* C27 as claimed: when downloadFile has failed after its response arrived,
\* for a reference whose file existed when the response arrived, the file
\* is there with the content it had.  (A request that fails touches no file.)
C27_FailedRedownloadKeepsFile ==
    (/\ batchError
     /\ checked.index = Len(outcomes)
     /\ checked.existing # NoFile) =>
        disk[FilePath(checked.index)] = checked.existing

\* ------------------------------------------------------------- pipeline
\* fetchAndDownloadFileLinks: fetchAllFileLinks, then confirmAndDownloadFiles
\* on the list it returned.  The responses are one body, with and without
\* content-length; a failing writer leaves no file.
PipelineResponses == {r \in Responses : r.body = <<"x">>}

NextPipeline ==
    \/ Start
    \/ \E userChoice \in BOOLEAN : AnswerUse(userChoice)
    \/ \E links \in PageLists, error \in BOOLEAN :
          \E built \in (IF error THEN 0..Len(links) ELSE {Len(links)}) :
             PageReturns(links, error, built)
    \/ \E confirmed \in BOOLEAN : AnswerDownload(confirmed)
    \/ \E resp \in PipelineResponses : ResponseArrives(resp)
    \/ RequestFails
    \/ StreamFinishes
    \/ StreamFails(NoFile)
    \/ DelayElapses

SpecPipeline == Init /\ [][NextPipeline]_vars

\* ------------------------------------------------------- pipeline: claims
\* confirmAndDownloadFiles was called
RetrievalCalled ==
    \/ pc \in {"askDownload", "awaitResponse", "awaitStream", "awaitDelay"}
    \/ pc = "done" /\ result = "returned"

\* C14: the references are requested in list order, each once; at most one
\* request is without an outcome, and one is exactly while the program waits
\* for a response or a stream; a page fetch in flight is for the page after
\* the pages already fetched, and none is in flight once a file was requested.
C14_StrictlySequential ==
    /\ requested = [k \in 1..Len(requested) |-> k]
    /\ Len(outcomes) <= Len(requested)
    /\ Len(requested) <= Len(outcomes) + 1
    /\ (Len(requested) = Len(outcomes) + 1) <=> (pc \in {"awaitResponse", "awaitStream"})
    /\ \A k \in Range(piped) : k <= Len(outcomes) + 1
    /\ pc = "awaitPage" => (page = START_PAGE + Len(fetchLog) /\ requested = <<>>)
    /\ requested # <<>> => pc # "awaitPage"

\* after two page fetches, the second reference is being streamed and the
\* first has its outcome
C14_Witness ==
    /\ fetched = 2
    /\ pc = "awaitStream"
    /\ requested = <<1, 2>>
    /\ outcomes = <<"downloaded">>

\* C15 as claimed: a run that has ended normally has asked the operator
\* exactly twice.
C15_AskedExactlyTwice == (pc = "done" /\ result = "returned") => Len(prompts) = 2

\* C15, amended: discovery has asked once exactly when a checkpoint file
\* existed at the start, retrieval has asked once exactly when it was
\* called, and nothing else asks: two questions when a checkpoint existed
\* and discovery returned, one when none existed.
C15_AskedOncePerComponentReached ==
    /\ Count(prompts, "use") = (IF checkpoint0 # NoFile /\ pc # "start" THEN 1 ELSE 0)
    /\ Count(prompts, "download") = (IF RetrievalCalled THEN 1 ELSE 0)
    /\ Len(prompts) = Count(prompts, "use") + Count(prompts, "download")
    /\ (pc = "done" /\ result = "returned") =>
          prompts = (IF checkpoint0 = NoFile THEN <<"download">> ELSE <<"use", "download">>)

\* the checkpoint was declined, the pages were walked and the files were
\* downloaded: two questions
C15_Witness ==
    /\ pc = "done" /\ result = "returned"
    /\ prompts = <<"use", "download">>
    /\ answers = <<FALSE, TRUE>>
    /\ fetched >= 1
    /\ outcomes # <<>>

\* ------------------------------------------- both fetchers: persist failure
\* DartFetcher.saveFileLinksToJson(fileLinks); return fileLinks.  When the
\* save throws, the catch of DartFetcher.fetchAndDownloadFileLinks logs the
\* error and the call resolves; confirmAndDownloadFiles is not reached.
DartSaveFileLinksToJson(acc, persist) ==
    IF persist = "written"
    THEN /\ checkpoint' = JsonLines(acc)
         /\ ReturnFileLinks
         /\ UNCHANGED result
    ELSE /\ checkpoint' = IF persist = "truncated" THEN <<>> ELSE checkpoint
         /\ pc' = "done"
         /\ result' = "returned"
         /\ UNCHANGED prompts

\* DartFetcher.fetchAllFileLinks: getDownloadInfo settles for the last
\* search item; the reference, if one was made, is pushed, the loop ends, and
\* the list is saved and handed to confirmAndDownloadFiles
LastDownloadInfoArrives(pushed, persist) ==
    /\ pc = "awaitDownloadInfo"
    /\ fileLinks' = fileLinks \o pushed
    /\ DartSaveFileLinksToJson(fileLinks \o pushed, persist)
    /\ UNCHANGED <<answers, loaded, maxItemsPerPage, checkpoint0, lastPageLinks, page,
                   fetched, lastFetch, prevFetch, fetchLog, anchors, dlVars, auxVars>>

\* DartFetcher.fetchAndDownloadFileLinks, suspended at the getDownloadInfo of
\* the last search item: no checkpoint was there, or the operator declined it
InitDart ==
    /\ pc = "awaitDownloadInfo"
    /\ result = "pending"
    /\ maxItemsPerPage = 1
    /\ checkpoint \in {NoFile, JsonLines(<<LinkC>>)}
    /\ checkpoint0 = checkpoint
    /\ fileLinks \in {<<>>, <<LinkA>>}
    /\ lastPageLinks = <<>>
    /\ page = START_PAGE
    /\ fetched = 0
    /\ lastFetch = NoFetch
    /\ prevFetch = NoFetch
    /\ fetchLog = <<>>
    /\ InitAuxIdle
    /\ anchors = <<>>
    /\ prompts = (IF checkpoint = NoFile THEN <<>> ELSE <<"use">>)
    /\ answers = (IF checkpoint = NoFile THEN <<>> ELSE <<FALSE>>)
    /\ loaded = Bad
    /\ InitRetrievalIdle

\* fetchAndDownloadFileLinks of FileLinkFetcher and of DartFetcher
InitFetchers == Init \/ InitDart

NextFetchers ==
    \/ NextPipeline
    \/ \E pushed \in {<<>>, <<LinkC>>}, persist \in {"written", "unchanged", "truncated"} :
          LastDownloadInfoArrives(pushed, persist)

SpecFetchers == InitFetchers /\ [][NextFetchers]_vars

\* discovery has ended: the list was returned, or an error left it
DiscoveryOver == pc \notin {"start", "askUse", "awaitPage", "awaitDownloadInfo"}

\* the checkpoint file holds the text of the list
CheckpointHolds(list) == checkpoint = JsonLines(list)

\* something of confirmAndDownloadFiles has happened
RetrievalStarted ==
    \/ "download" \in Range(prompts)
    \/ requested # <<>>
    \/ folderExists
    \/ disk # disk0

\* the download question is put in this step
DownloadAsked == "download" \in Range(prompts') /\ "download" \notin Range(prompts)

\* C25: retrieval is entered only with the checkpoint file holding the list,
\* so a run whose folder could not be made or whose file could not be written
\* never reaches it: the download question is put only in the step that
\* hands the list to retrieval, at that point the file holds the list, the
\* list and the file stay as they are from then on, and a run whose discovery
\* has ended without the question is over with nothing of retrieval done (no
\* request, no folder, no file).
C25_PersistFailureIsFatal ==
    /\ [](pc = "askDownload" => CheckpointHolds(fileLinks))
    /\ [][DownloadAsked => pc' = "askDownload"]_vars
    /\ [][DiscoveryOver => UNCHANGED <<checkpoint, fileLinks>>]_vars
    /\ []((DiscoveryOver /\ "download" \notin Range(prompts)) =>
             (pc = "done" /\ ~RetrievalStarted /\ Len(answers) = Len(prompts)))
    /\ [](~DiscoveryOver => ~RetrievalStarted)

\* a walk of two pages ended with a write that left the file cut to nothing
C25_Witness ==
    /\ pc = "done"
    /\ result = "threw"
    /\ fetched = 2
    /\ fileLinks # <<>>
    /\ checkpoint = <<>>
    /\ checkpoint0 # <<>>
    /\ ~RetrievalStarted

\* DartFetcher's save failed
C25_WitnessDart ==
    /\ pc = "done"
    /\ fetched = 0
    /\ checkpoint0 = NoFile
    /\ fileLinks # <<>>
    /\ ~CheckpointHolds(fileLinks)

\* ------------------------------------------------- checkpoint round trip
\* the characters and strings of the round trip: a letter, and the
\* characters JSON.stringify escapes
JsonChars == {"a", DQ, BS, LF}
JsonStrings == SeqsUpTo(JsonChars, MaxStrLen)
JsonUrls == {<<"u">>, <<BS, DQ, ",">>}
JsonLinks == {FileLink(u, f) : u \in JsonUrls, f \in JsonStrings}

\* saveFileLinksToJson(fileLinks): fs.writeFileSync(outputFilePath, jsonLines)
SaveJson ==
    /\ pc = "save"
    /\ checkpoint' = JsonLines(fileLinks)
    /\ pc' = "saved"
    /\ UNCHANGED <<result, fileLinks, prompts, answers, loaded, maxItemsPerPage,
                   checkpoint0, lastPageLinks, page, fetched, lastFetch, prevFetch,
                   fetchLog, anchors, dlVars, auxVars>>

\* JSON.parse(fs.readFileSync(existingFilePath, 'utf8'))
ReadJson ==
    /\ pc = "saved"
    /\ loaded' = JSONparse(checkpoint)
    /\ pc' = "loaded"
    /\ UNCHANGED <<result, fileLinks, prompts, answers, walkVars, dlVars, auxVars>>

InitJson ==
    /\ pc = "save"
    /\ result = "pending"
    /\ maxItemsPerPage = 1
    /\ checkpoint = NoFile
    /\ checkpoint0 = NoFile
    /\ fileLinks \in SeqsUpTo(JsonLinks, MaxJsonList)
    /\ lastPageLinks = <<>>
    /\ page = START_PAGE
    /\ fetched = 0
    /\ lastFetch = NoFetch
    /\ prevFetch = NoFetch
    /\ fetchLog = <<>>
    /\ InitAuxIdle
    /\ anchors = <<>>
    /\ prompts = <<>>
    /\ answers = <<>>
    /\ loaded = Bad
    /\ InitRetrievalIdle

NextJson == SaveJson \/ ReadJson

SpecJson == InitJson /\ [][NextJson]_vars

\* C8: the text saveFileLinksToJson writes for a list parses, and parses to
\* a list of the same length with the same url and filename at every
\* position.
C8_CheckpointRoundTrip ==
    pc = "loaded" =>
        /\ loaded.ok
        /\ Len(loaded.val) = Len(fileLinks)
        /\ \A k \in 1..Len(fileLinks) :
              /\ loaded.val[k].url = fileLinks[k].url
              /\ loaded.val[k].filename = fileLinks[k].filename

\* two different references, one with a double quote in its filename, were
\* written and read back
C8_Witness ==
    /\ pc = "loaded"
    /\ Len(fileLinks) = 2
    /\ fileLinks[1] # fileLinks[2]
    /\ fileLinks[1].filename = <<DQ>>

\* the empty list was written and read back
C8_WitnessEmpty == pc = "loaded" /\ fileLinks = <<>> /\ loaded.ok

\* ------------------------------------------------- filenames of references
Null == <<"null">>
Throws == <<"throws">>

\* the characters [a-zA-Z0-9] matches
Alnum ==
    {"a", "b", "c", "d", "e", "f", "g", "h", "i", "j", "k", "l", "m", "n", "o", "p", "q",
     "r", "s", "t", "u", "v", "w", "x", "y", "z", "A", "B", "C", "D", "E", "F", "G", "H",
     "I", "J", "K", "L", "M", "N", "O", "P", "Q", "R", "S", "T", "U", "V", "W", "X", "Y",
     "Z", "0", "1", "2", "3", "4", "5", "6", "7", "8", "9"}
\* the characters . does not match
LineTerminators == {LF, "\r"}

\* .+\.[a-zA-Z0-9]+ can match from s with its \. at d: one character or more
\* of one line before d, a full stop at d, a letter or digit after it
DotAt(t, s, d) ==
    /\ s < d /\ d < Len(t)
    /\ t[d] = "." /\ t[d + 1] \in Alnum
    /\ \A n \in s..(d - 1) : t[n] \notin LineTerminators

\* the last index of the run of letters and digits that holds p
RECURSIVE AlnumRunEnd(_, _)
AlnumRunEnd(t, p) ==
    IF p + 1 <= Len(t) /\ t[p + 1] \in Alnum THEN AlnumRunEnd(t, p + 1) ELSE p

\* extractFileNameFromTitle: title.match(/(.+\.[a-zA-Z0-9]+)/), group 1 or
\* null.  The match is the leftmost one; .+ is greedy, so its \. is the last
\* one it can be, and the run of letters and digits after it is taken whole.
ExtractFileNameFromTitle(title) ==
    LET starts == {s \in 1..Len(title) : \E d \in 1..Len(title) : DotAt(title, s, d)} IN
    IF starts = {} THEN Null
    ELSE LET s == CHOOSE x \in starts : \A y \in starts : x <= y
             dots == {d \in 1..Len(title) : DotAt(title, s, d)}
             d == CHOOSE x \in dots : \A y \in dots : y <= x
         IN SubSeq(title, s, AlnumRunEnd(title, d + 1))

\* an anchor as the loop sees it: what extractFileUrl makes of its href (null,
\* a url, or new URL throws), and its title
Anchor(u, t) == [fileUrl |-> u, title |-> t]

\* the loop over the anchors, inside the try: a reference is pushed for an
\* anchor with a file url and a filename; a throw ends the loop, and what was
\* pushed before it is returned
RECURSIVE BuildFileLinks(_)
BuildFileLinks(links) ==
    IF links = <<>> THEN <<>>
    ELSE LET link == Head(links)
             filename == ExtractFileNameFromTitle(link.title)
         IN IF link.fileUrl = Throws THEN <<>>
            ELSE (IF link.fileUrl # Null /\ filename # Null
                  THEN <<FileLink(link.fileUrl, filename)>> ELSE <<>>)
                 \o BuildFileLinks(Tail(links))

\* the characters of /[<>:"/\\|?*]+/
Reserved == {"<", ">", ":", DQ, "/", BS, "|", "?", "*"}

\* fileName.replace(/[<>:"/\\|?*]+/g, "_"): every run of reserved characters
\* becomes one underscore
RECURSIVE ReplaceReserved(_, _)
ReplaceReserved(s, inRun) ==
    IF s = <<>> THEN <<>>
    ELSE IF Head(s) \in Reserved
         THEN (IF inRun THEN <<>> ELSE <<"_">>) \o ReplaceReserved(Tail(s), TRUE)
         ELSE <<Head(s)>> \o ReplaceReserved(Tail(s), FALSE)

\* the characters of the titles and of the names a header carries
TitleChars == {"a", ".", "/", LF}
Titles == SeqsUpTo(TitleChars, MaxTitleLen)
HeaderChars == {"a", ".", "/", ":"}
HeaderNames == SeqsUpTo(HeaderChars, MaxTitleLen)
Anchors == {Anchor(u, t) : u \in {Null, Throws, <<"u">>}, t \in Titles}

\* FileLinkFetcher.getFileLinksFromPage: page.evaluate resolves with the
\* anchors; the loop builds the references, then browser.close() is awaited
AnchorsEvaluated ==
    /\ pc = "awaitEvaluate"
    /\ fileLinks' = BuildFileLinks(anchors)
    /\ pc' = "awaitClose"
    /\ UNCHANGED <<result, prompts, answers, loaded, walkVars, dlVars, auxVars>>

\* DartFetcher.getDownloadInfo: axios.get resolves.  Without a
\* content-disposition header it throws and fetchAllFileLinks pushes nothing;
\* otherwise fileName is what the header decodes to, and the reference with
\* the replaced name is pushed.
DownloadInfoArrives(hasDisposition, fileName) ==
    /\ pc = "awaitDownloadInfo"
    /\ fileLinks' = IF hasDisposition
                    THEN Append(fileLinks, FileLink(<<"d">>, ReplaceReserved(fileName, FALSE)))
                    ELSE fileLinks
    /\ pc' = "awaitNextInfo"
    /\ UNCHANGED <<result, prompts, answers, loaded, walkVars, dlVars, auxVars>>

InitNames ==
    /\ \/ pc = "awaitEvaluate" /\ anchors \in SeqsUpTo(Anchors, MaxAnchors)
       \/ pc = "awaitDownloadInfo" /\ anchors = <<>>
    /\ result = "pending"
    /\ maxItemsPerPage = 1
    /\ checkpoint = NoFile
    /\ checkpoint0 = NoFile
    /\ fileLinks = <<>>
    /\ lastPageLinks = <<>>
    /\ page = START_PAGE
    /\ fetched = 0
    /\ lastFetch = NoFetch
    /\ prevFetch = NoFetch
    /\ fetchLog = <<>>
    /\ InitAuxIdle
    /\ prompts = <<>>
    /\ answers = <<>>
    /\ loaded = Bad
    /\ InitRetrievalIdle

NextNames ==
    \/ AnchorsEvaluated
    \/ \E hasDisposition \in BOOLEAN, fileName \in HeaderNames :
          DownloadInfoArrives(hasDisposition, fileName)

SpecNames == InitNames /\ [][NextNames]_vars

\* a filename without path separator and without reserved character
IsSafeFilename(f) == \A k \in 1..Len(f) : f[k] \notin Reserved

\* C13 as claimed: every reference discovery has created, from an anchor
\* title or from a response header, has a safe filename.
C13_FilenamesSafe ==
    \A k \in 1..Len(fileLinks) : IsSafeFilename(fileLinks[k].filename)

\* ------------------------------------------- the walk over a finite source
Min(a, b) == IF a <= b THEN a ELSE b

\* the number of pages the results of a source fill
RealPages(src) == (Len(src.results) + src.pageSize - 1) \div src.pageSize

\* what the source serves as page n (from START_PAGE): its results cut into
\* pages of pageSize; past its last real page, an empty page or its last real
\* page again
SourcePage(src, n) ==
    LET k == n - START_PAGE + 1
        Real(m) == SubSeq(src.results, (m - 1) * src.pageSize + 1,
                          Min(m * src.pageSize, Len(src.results)))
    IN IF k <= RealPages(src) THEN Real(k)
       ELSE IF src.pastEnd = "repeat" /\ RealPages(src) >= 1 THEN Real(RealPages(src))
       ELSE <<>>

\* the n-th result of a listing: the same reference throughout, two
\* references in turn, or each of the two twice in turn
Listing(kind, n) ==
    IF kind = "same" THEN LinkA
    ELSE IF kind = "turns" THEN (IF n % 2 = 1 THEN LinkA ELSE LinkB)
    ELSE (IF (n - 1) % 4 < 2 THEN LinkA ELSE LinkB)

\* the sources: the first results of a listing, which fill fewer than
\* MaxPages pages
Sources ==
    {[results |-> [n \in 1..len |-> Listing(kind, n)], pageSize |-> size, pastEnd |-> past] :
        kind \in {"same", "turns", "pairs"},
        size \in 1..MaxItems,
        len \in 0..(MaxItems * (MaxPages - 1)),
        past \in {"empty", "repeat"}}
    \cap {src \in [results : Seq(PageLinks), pageSize : 1..MaxItems,
                    pastEnd : {"empty", "repeat"}] :
             Len(src.results) <= src.pageSize * (MaxPages - 1)}

\* getFileLinksFromPage resolves with the references of the source's page
SourcePageReturns ==
    \E links \in {SourcePage(source, page)} : PageReturns(links, FALSE, Len(links))

\* fetchAllFileLinks at its first getFileLinksFromPage, over some source
InitSource ==
    /\ pc = "awaitPage"
    /\ result = "pending"
    /\ maxItemsPerPage \in 1..MaxItems
    /\ checkpoint = NoFile
    /\ checkpoint0 = NoFile
    /\ fileLinks = <<>>
    /\ lastPageLinks = <<>>
    /\ page = START_PAGE
    /\ fetched = 0
    /\ lastFetch = NoFetch
    /\ prevFetch = NoFetch
    /\ fetchLog = <<>>
    /\ anchors = <<>>
    /\ prompts = <<>>
    /\ answers = <<>>
    /\ loaded = Bad
    /\ InitRetrievalIdle
    /\ source \in Sources
    /\ minDelayMs = 0
    /\ maxDelayMs = 0
    /\ delayTime = 0
    /\ saveDir = {}
    /\ filePath = <<>>
    /\ uniqueFilePath = <<>>
    /\ counter = 1

NextSource == SourcePageReturns

\* every page fetch returns
SpecSource == InitSource /\ [][NextSource]_vars /\ WF_vars(SourcePageReturns)

\* C23: over a source of finitely many results that past its end serves an
\* empty page or its last page again, the walk asks for at most one page
\* past the source's real pages, and a walk that waits for a page eventually
\* leaves its loop: it returns its list or, when the checkpoint cannot be
\* written, ends with that error.
C23_WalkTerminates ==
    /\ [](fetched <= RealPages(source) + 1)
    /\ (pc = "awaitPage") ~> (pc \in {"askDownload", "done"})

\* two full pages, then the second again, and the walk returned at the
\* duplicate-page check
C23_Witness ==
    /\ source.pastEnd = "repeat"
    /\ source.pageSize = maxItemsPerPage
    /\ RealPages(source) = 2
    /\ Len(source.results) = 2 * maxItemsPerPage
    /\ fetched = 3
    /\ StoppedByDuplicateCheck
    /\ Discovered

\* a full last page, then an empty one, and the walk returned at the
\* short-page check
C23_WitnessEmpty ==
    /\ source.pastEnd = "empty"
    /\ source.pageSize = maxItemsPerPage
    /\ Len(source.results) = 2 * maxItemsPerPage
    /\ fetched = 3
    /\ StoppedByShortPageCheck
    /\ Discovered

\* ------------------------------------------------------- the pacing delay
\* A mutant of GetRandomDelay: Math.round in the place of Math.floor.
GetRandomDelayRounding(min, max, random) ==
    ((2 * random * (max - min + 1) + RandomSteps) \div (2 * RandomSteps)) + min

\* Math.floor(Math.random() * (maxDelayMs - minDelayMs + 1)) + minDelayMs,
\* for Math.random() = random / RandomSteps
GetRandomDelay(min, max, random) ==
    ((random * (max - min + 1)) \div RandomSteps) + min

\* const delayTime = this.getRandomDelay(); await this.delay(delayTime)
DelayDrawn(random) ==
    /\ pc = "getRandomDelay"
    /\ delayTime' = GetRandomDelay(minDelayMs, maxDelayMs, random)
    /\ pc' = "awaitDelay"
    /\ UNCHANGED <<result, fileLinks, prompts, answers, loaded, walkVars, dlVars, source,
                   minDelayMs, maxDelayMs, saveDir, filePath, uniqueFilePath, counter>>

\* a FileDownloader with 0 <= minDelayMs <= maxDelayMs about to draw a delay
InitDelay ==
    /\ pc = "getRandomDelay"
    /\ result = "pending"
    /\ maxItemsPerPage = 1
    /\ checkpoint = NoFile
    /\ checkpoint0 = NoFile
    /\ fileLinks = <<>>
    /\ lastPageLinks = <<>>
    /\ page = START_PAGE
    /\ fetched = 0
    /\ lastFetch = NoFetch
    /\ prevFetch = NoFetch
    /\ fetchLog = <<>>
    /\ anchors = <<>>
    /\ prompts = <<>>
    /\ answers = <<>>
    /\ loaded = Bad
    /\ InitRetrievalIdle
    /\ source = NoSource
    /\ minDelayMs \in 0..MaxDelayMs
    /\ maxDelayMs \in minDelayMs..MaxDelayMs
    /\ delayTime = 0
    /\ saveDir = {}
    /\ filePath = <<>>
    /\ uniqueFilePath = <<>>
    /\ counter = 1

NextDelay == \E random \in 0..(RandomSteps - 1) : DelayDrawn(random)

SpecDelay == InitDelay /\ [][NextDelay]_vars

\* C24: a delay that was drawn is a natural number from minDelayMs to
\* maxDelayMs, and it is 0 when both are 0.
C24_DelayWithinBounds ==
    pc = "awaitDelay" =>
        /\ delayTime \in Nat
        /\ minDelayMs <= delayTime
        /\ delayTime <= maxDelayMs
        /\ (minDelayMs = 0 /\ maxDelayMs = 0) => delayTime = 0

\* the largest delay of a range of several values was drawn
C24_Witness ==
    /\ pc = "awaitDelay"
    /\ minDelayMs = 2
    /\ maxDelayMs = 5
    /\ delayTime = 5

\* the defaults gave the delay 0
C24_WitnessDefaults ==
    /\ pc = "awaitDelay"
    /\ minDelayMs = 0
    /\ maxDelayMs = 0
    /\ delayTime = 0

\* ---------------------------------------------- PdfDownloader.downloadPdf
\* a path is the name of a file in saveDir
PdfSuffix == <<".", "p", "d", "f">>
\* `file_${rcpNo}.pdf`
DefaultFilename == <<"f", "i", "l", "e", "_", "1">> \o PdfSuffix
NameA == <<"a">> \o PdfSuffix
NameA1 == <<"a", " ", "(", "1", ")">> \o PdfSuffix
NameA2 == <<"a", " ", "(", "2", ")">> \o PdfSuffix
\* names that do not end in .pdf: another extension, and upper case
NameZ == <<"a", ".", "z", "i", "p">>
NameU == <<"a", ".", "P", "D", "F">>

\* what saveDir can hold when downloadPdf is called
PdfPaths == {DefaultFilename, NameA, NameA1, NameA2, NameZ, NameU}

\* the content-disposition header of the response: absent, without a
\* filename*=UTF-8'' part (name = Null), or with one.  The names hold no
\* percent sign, so decodeURIComponent returns them as they are.
PdfHeaders ==
    {[present |-> FALSE, name |-> Null], [present |-> TRUE, name |-> Null]}
    \cup {[present |-> TRUE, name |-> n] : n \in {NameA, NameZ, NameU}}

\* contentDisposition ? contentDisposition.match(...)?.[1] || defaultFilename
\*                    : defaultFilename
DeriveFilename(header) ==
    IF header.present
    THEN (IF header.name # Null THEN header.name ELSE DefaultFilename)
    ELSE DefaultFilename

DecimalDigits == <<"0", "1", "2", "3", "4", "5", "6", "7", "8", "9">>

\* `${counter}`
RECURSIVE CounterText(_)
CounterText(n) ==
    IF n < 10 THEN <<DecimalDigits[n + 1]>>
    ELSE CounterText(n \div 10) \o <<DecimalDigits[(n % 10) + 1]>>

\* filePath.replace(/(\.pdf)$/, ` (${counter}).pdf`): a path that does not
\* end in .pdf is returned as it is
ReplacePdfSuffix(path, n) ==
    IF Len(path) >= 4 /\ SubSeq(path, Len(path) - 3, Len(path)) = PdfSuffix
    THEN SubSeq(path, 1, Len(path) - 4) \o <<" ", "(">> \o CounterText(n) \o <<")">> \o PdfSuffix
    ELSE path

\* A mutant of ExistsSync: no path is found to exist.
ExistsSyncNever(path) == FALSE

\* fs.existsSync(uniqueFilePath)
ExistsSync(path) == path \in saveDir

pdfUnchanged == <<fileLinks, prompts, answers, loaded, walkVars, dlVars, source, minDelayMs,
                  maxDelayMs, delayTime>>

\* axios.get resolves: the filename and the path are derived, and the
\* name-conflict loop is entered
PdfResponseArrives(header) ==
    /\ pc = "awaitPdfResponse"
    /\ filePath' = DeriveFilename(header)
    /\ uniqueFilePath' = DeriveFilename(header)
    /\ counter' = 1
    /\ pc' = "conflictLoop"
    /\ UNCHANGED <<result, saveDir, pdfUnchanged>>

\* axios.get rejects, and downloadPdf with it
PdfRequestFails ==
    /\ pc = "awaitPdfResponse"
    /\ pc' = "done"
    /\ result' = "threw"
    /\ UNCHANGED <<saveDir, filePath, uniqueFilePath, counter, pdfUnchanged>>

\* one test of the while loop: the body when the path exists, or the exit,
\* fs.createWriteStream(uniqueFilePath) and the pipe
ConflictLoopStep ==
    /\ pc = "conflictLoop"
    /\ IF ExistsSync(uniqueFilePath)
       THEN /\ counter <= MaxCounter
            /\ uniqueFilePath' = ReplacePdfSuffix(filePath, counter)
            /\ counter' = counter + 1
            /\ UNCHANGED pc
       ELSE /\ pc' = "awaitPdfStream"
            /\ UNCHANGED <<uniqueFilePath, counter>>
    /\ UNCHANGED <<result, saveDir, filePath, pdfUnchanged>>

\* the writer emits finish: the file is there, and its path is returned
PdfStreamFinishes ==
    /\ pc = "awaitPdfStream"
    /\ saveDir' = saveDir \cup {uniqueFilePath}
    /\ pc' = "done"
    /\ result' = "returned"
    /\ UNCHANGED <<filePath, uniqueFilePath, counter, pdfUnchanged>>

\* the writer emits error: the file was opened or not, and downloadPdf rejects
PdfStreamFails(opened) ==
    /\ pc = "awaitPdfStream"
    /\ saveDir' = IF opened THEN saveDir \cup {uniqueFilePath} ELSE saveDir
    /\ pc' = "done"
    /\ result' = "threw"
    /\ UNCHANGED <<filePath, uniqueFilePath, counter, pdfUnchanged>>

\* downloadPdf(rcpNo, dcmNo, saveDir) is called on a folder in any state
InitPdf ==
    /\ pc = "awaitPdfResponse"
    /\ result = "pending"
    /\ maxItemsPerPage = 1
    /\ checkpoint = NoFile
    /\ checkpoint0 = NoFile
    /\ fileLinks = <<>>
    /\ lastPageLinks = <<>>
    /\ page = START_PAGE
    /\ fetched = 0
    /\ lastFetch = NoFetch
    /\ prevFetch = NoFetch
    /\ fetchLog = <<>>
    /\ anchors = <<>>
    /\ prompts = <<>>
    /\ answers = <<>>
    /\ loaded = Bad
    /\ InitRetrievalIdle
    /\ source = NoSource
    /\ minDelayMs = 0
    /\ maxDelayMs = 0
    /\ delayTime = 0
    /\ saveDir \in SUBSET PdfPaths
    /\ filePath = <<>>
    /\ uniqueFilePath = <<>>
    /\ counter = 1

NextPdf ==
    \/ \E header \in PdfHeaders : PdfResponseArrives(header)
    \/ PdfRequestFails
    \/ ConflictLoopStep
    \/ PdfStreamFinishes
    \/ \E opened \in BOOLEAN : PdfStreamFails(opened)

SpecPdf == InitPdf /\ [][NextPdf]_vars

\* C29: the path downloadPdf has opened for writing did not exist when the
\* loop chose it, and as long as the stream goes on no file of the folder is
\* at that path.
C29_NeverOverwrites ==
    pc = "awaitPdfStream" => uniqueFilePath \notin saveDir

\* a.pdf and a (1).pdf are there, and a (2).pdf was opened
C29_Witness ==
    /\ pc = "awaitPdfStream"
    /\ {NameA, NameA1} \subseteq saveDir
    /\ filePath = NameA
    /\ uniqueFilePath = NameA2
    /\ counter = 3

\* C30 as claimed: the name-conflict loop terminates.  The loop test reads
\* only uniqueFilePath and a folder the loop does not change, so the loop
\* ends exactly when every pass that finds the path taken moves on to a path
\* it has not tried: the path the body is about to assign differs from the
\* one found taken.
C30_ConflictLoopProgresses ==
    (pc = "conflictLoop" /\ ExistsSync(uniqueFilePath)) =>
        ReplacePdfSuffix(filePath, counter) # uniqueFilePath

=============================================================================
